---- MODULE Spec2Model ----
(***************************************************************************)
(* Model of praxis/layers/quantization: the sparsity mask functions of     *)
(* sparsity/sparsity.py and the quantized Linear layer of linears.py.      *)
(*                                                                         *)
(* A tensor is a record [shape, data]: data is the row-major flattening.   *)
(* Axis numbers and positions inside a group are 0-based as in the source; *)
(* TLA+ sequences are 1-based, so element p of the flattening is data[p+1].*)
(***************************************************************************)
EXTENDS Integers, Sequences, FiniteSets, TLC

VARIABLES
  call,            \* the pending pure-function call: function name and arguments
  ret,             \* what the call returned or raised
  cfg,             \* the Linear layer's configuration (its dataclass fields)
  PACK_4BIT_DIM,   \* Linear._PACK_4BIT_DIM, an attribute setup() may overwrite
  theta,           \* the weights declared by setup(), by name
  out              \* what the last layer operation returned, raised or passed on

vars == <<call, ret, cfg, PACK_4BIT_DIM, theta, out>>

----------------------------------------------------------------------------
(* Bounds of the model. *)

MaxElems == 4      \* most elements of a tensor handed to the mask functions
MaxVal == 1        \* tensor elements range over -1..MaxVal
MaxLenU == 3       \* most elements of a tensor handed to percentile pruning
MaxDim == 4        \* largest axis of a shape handed to _get_sub_channel_shape
MaxContract == 4   \* most elements of an operand of the blocked contraction
MaxInputDims == 4  \* largest input_dims (and block_size) of a Linear layer
MaxOutputDims == 2 \* largest output_dims of a Linear layer
MaxWeight == 1     \* mask_decay_weight and sparse_ste_weight range over -1..MaxWeight

----------------------------------------------------------------------------
(* Results of a call. *)

None == [tag |-> "None"]
NoRet == [tag |-> "pending"]
Ok(v) == [tag |-> "ok", val |-> v]
Raise(e) == [tag |-> "raise", exc |-> e]

----------------------------------------------------------------------------
(* Tensors. *)

RECURSIVE Prod(_)
Prod(shape) == IF shape = <<>> THEN 1 ELSE Head(shape) * Prod(Tail(shape))

Tensor(shape, data) == [shape |-> shape, data |-> data]

Size(t) == Len(t.data)

Abs(x) == IF x < 0 THEN -x ELSE x

jnp_abs(t) == Tensor(t.shape, [p \in 1..Size(t) |-> Abs(t.data[p])])

\* reshape(shape, order='C'): the row-major flattening is unchanged
Reshape(t, shape) == Tensor(shape, t.data)

\* jnp.einsum('...ij->...ji', t): element [.., j, i] of the result is element
\* [.., i, j] of t
TransposeLast2(t) ==
  LET r == Len(t.shape)
      I == t.shape[r - 1]
      J == t.shape[r]
      shape == [k \in 1..r |-> IF k = r - 1 THEN J ELSE IF k = r THEN I ELSE t.shape[k]]
      src(q) == ((q \div (I * J)) * (I * J)) + ((q % I) * J) + ((q % (I * J)) \div I)
  IN  Tensor(shape, [q1 \in 1..Size(t) |-> t.data[src(q1 - 1) + 1]])

Values == -1..MaxVal

Shapes(maxElems) ==
  {<<a>> : a \in 1..maxElems}
    \cup {s \in {<<a, b>> : a \in 1..maxElems, b \in 1..maxElems} : Prod(s) <= maxElems}

TensorsOf(shape, vals) == {Tensor(shape, d) : d \in [1..Prod(shape) -> vals]}

Tensors(maxElems, vals) == UNION {TensorsOf(s, vals) : s \in Shapes(maxElems)}

----------------------------------------------------------------------------
(* sparsity.py *)

apply_sparsity_inverted(inputs, mask) ==
  Tensor(inputs.shape,
         [p \in 1..Size(inputs) |-> IF mask.data[p] THEN 0 ELSE inputs.data[p]])

\* jnp.where(mask, inputs, jnp.zeros(inputs.shape, inputs.dtype))
apply_sparsity(inputs, mask) ==
  Tensor(inputs.shape,
         [p \in 1..Size(inputs) |-> IF mask.data[p] THEN inputs.data[p] ELSE 0])

top_k_first_higher_index(row, taken) ==
  CHOOSE i \in (1..Len(row)) \ taken :
    \A j \in (1..Len(row)) \ taken : row[i] > row[j] \/ (row[i] = row[j] /\ i >= j)

\* the next index jax.lax.top_k picks: the largest remaining value, the lower
\* index among equal values
top_k_first(row, taken) ==
  CHOOSE i \in (1..Len(row)) \ taken :
    \A j \in (1..Len(row)) \ taken : row[i] > row[j] \/ (row[i] = row[j] /\ i <= j)

\* jax.lax.top_k(row, k)[1]: the (1-based) indices of the k largest entries
RECURSIVE top_k_indices(_, _, _)
top_k_indices(row, k, taken) ==
  IF k = 0 THEN <<>>
  ELSE LET i == top_k_first(row, taken)
       IN  <<i>> \o top_k_indices(row, k - 1, taken \cup {i})

\* jnp.any(jax.nn.one_hot(top_k_indices, m, dtype=bool), axis=-2) for one row
one_hot_any(indices, m) == [j \in 1..m |-> \E p \in 1..Len(indices) : indices[p] = j]

\* lines 70-73 on inputs_temp of shape (group, m)
group_mask(inputs_temp, n_sparsity) ==
  LET group == inputs_temp.shape[1]
      m == inputs_temp.shape[2]
      row(g) == [j \in 1..m |-> inputs_temp.data[(g * m) + j]]
      rowmask(g) == one_hot_any(top_k_indices(row(g), n_sparsity, {}), m)
  IN  Tensor(<<group, m>>,
             [p \in 1..(group * m) |-> rowmask((p - 1) \div m)[((p - 1) % m) + 1]])

get_sparsity_mask(inputs, n_sparsity, m_sparsity, order) ==
  IF ~(n_sparsity <= m_sparsity) THEN Raise("AssertionError")
  ELSE IF Size(inputs) % m_sparsity # 0 THEN Raise("ValueError")
  ELSE IF order \notin {"C", "R"} THEN Raise("ValueError")
  ELSE
    LET group == Size(inputs) \div m_sparsity
        inputs_abs == jnp_abs(inputs)
    IN  IF order = "R"
        THEN Ok(Reshape(group_mask(Reshape(inputs_abs, <<group, m_sparsity>>), n_sparsity),
                        inputs_abs.shape))
        ELSE IF Len(inputs.shape) < 2
        THEN Raise("ValueError")    \* einsum '...ij->...ji' on a 1-D operand
        ELSE
          LET inputs_trans == TransposeLast2(inputs_abs)
              original_shape == inputs_trans.shape
              mask == group_mask(Reshape(inputs_trans, <<group, m_sparsity>>), n_sparsity)
          IN  Ok(TransposeLast2(Reshape(mask, original_shape)))

prune_inputs_n_m(inputs, n, m, order) ==
  LET mask == get_sparsity_mask(inputs, n, m, order)
  IN  IF mask.tag = "ok"
      THEN Ok(Tensor(inputs.shape,
                [p \in 1..Size(inputs) |-> IF mask.val.data[p] THEN inputs.data[p] ELSE 0]))
      ELSE mask

Percent == 100     \* prune_rate is a percentage, "value between 0 and 100"

\* jnp.sort of a flat sequence, ascending
RECURSIVE Sort(_)
Insert(x, s) ==
  LET k == Cardinality({i \in 1..Len(s) : s[i] <= x})
  IN  SubSeq(s, 1, k) \o <<x>> \o SubSeq(s, k + 1, Len(s))

Sort(s) == IF s = <<>> THEN <<>> ELSE Insert(Head(s), Sort(Tail(s)))

percentile_higher(a, q) ==
  LET sorted == Sort(a)
      pos == q * (Len(a) - 1)
      high == IF pos % Percent = 0 THEN pos \div Percent ELSE (pos \div Percent) + 1
  IN  sorted[high + 1] * Percent

\* jnp.percentile(a, q) with the default linear interpolation, times Percent
\* (so that the result stays an integer): q/100 * (N-1) is split into the order
\* statistic below it, the one above it and the weight between them
percentile(a, q) ==
  LET sorted == Sort(a)
      pos == q * (Len(a) - 1)
      low == pos \div Percent
      high_weight == pos % Percent
      high == IF high_weight = 0 THEN low ELSE low + 1
  IN  (sorted[low + 1] * (Percent - high_weight)) + (sorted[high + 1] * high_weight)

masked_inputs_ignored(inputs, mask) == inputs

\* lines 106-107: if mask is not None: inputs = apply_sparsity(inputs, mask)
masked_inputs(inputs, mask) ==
  IF mask # None THEN apply_sparsity(inputs, mask) ELSE inputs

get_sparsity_mask_unstructured(inputs, mask, prune_rate) ==
  LET inputs_abs == jnp_abs(masked_inputs(inputs, mask))
      threshold == percentile(inputs_abs.data, prune_rate)
  IN  Tensor(inputs.shape,
             [p \in 1..Size(inputs) |-> inputs_abs.data[p] * Percent > threshold])

----------------------------------------------------------------------------
(* The layer is not under construction while a mask function is exercised. *)

NoLayer == [tag |-> "no layer"]

LayerIdle ==
  /\ cfg = NoLayer
  /\ PACK_4BIT_DIM = 0
  /\ theta = None
  /\ out = NoRet

----------------------------------------------------------------------------
(* Spec: get_sparsity_mask, prune_inputs_n_m and apply_sparsity on bounded  *)
(* tensors.                                                                 *)

Orders == {"R", "C", "F"}

Scenario_NM == Tensor(<<1, 4>>, <<4, 1, 3, 2>>)

\* a 2x3 matrix with a tie across rows, whose transpose is not a relabelling
Sample_2x3 == Tensor(<<2, 3>>, <<3, -1, 2, -3, 0, 1>>)

MaskInputs == Tensors(MaxElems, Values) \cup {Scenario_NM, Sample_2x3}

Masks(shape) == TensorsOf(shape, BOOLEAN)

\* n up to m + 1: one call per m trips the assertion n <= m
Init_NM(fn) ==
  \E t \in MaskInputs, m \in 1..MaxElems, o \in Orders :
    \E n \in 0..(m + 1) :
      call = [fn |-> fn, inputs |-> t, n |-> n, m |-> m, order |-> o]

Init_apply_sparsity ==
  \E t \in Tensors(MaxElems, Values) :
    \E k \in Masks(t.shape) :
      call = [fn |-> "apply_sparsity", inputs |-> t, mask |-> k]

Init ==
  /\ \/ Init_NM("get_sparsity_mask")
     \/ Init_NM("prune_inputs_n_m")
     \/ Init_apply_sparsity
  /\ ret = NoRet
  /\ LayerIdle

Call_get_sparsity_mask ==
  /\ call.fn = "get_sparsity_mask"
  /\ ret = NoRet
  /\ ret' = get_sparsity_mask(call.inputs, call.n, call.m, call.order)
  /\ UNCHANGED <<call, cfg, PACK_4BIT_DIM, theta, out>>

Call_prune_inputs_n_m ==
  /\ call.fn = "prune_inputs_n_m"
  /\ ret = NoRet
  /\ ret' = prune_inputs_n_m(call.inputs, call.n, call.m, call.order)
  /\ UNCHANGED <<call, cfg, PACK_4BIT_DIM, theta, out>>

Call_apply_sparsity ==
  /\ call.fn = "apply_sparsity"
  /\ ret = NoRet
  /\ ret' = Ok(apply_sparsity(call.inputs, call.mask))
  /\ UNCHANGED <<call, cfg, PACK_4BIT_DIM, theta, out>>

Next ==
  \/ Call_get_sparsity_mask
  \/ Call_prune_inputs_n_m
  \/ Call_apply_sparsity

Spec == Init /\ [][Next]_vars

----------------------------------------------------------------------------
(* Claims on get_sparsity_mask, prune_inputs_n_m and apply_sparsity.        *)

\* flat position (0-based) in a tensor of this shape of element j of group g:
\* groups are runs of m elements of the row-major flattening (order 'R'), or of
\* the row-major flattening of the tensor with its last two axes swapped ('C')
GroupPos(shape, order, m, g, j) ==
  LET q == (g * m) + j
  IN  IF order = "R" THEN q
      ELSE LET I == shape[Len(shape) - 1]
               J == shape[Len(shape)]
               i == q % I
               jj == (q % (I * J)) \div I
           IN  ((q \div (I * J)) * (I * J)) + (i * J) + jj

NMCallValid ==
  /\ call.n <= call.m
  /\ Size(call.inputs) % call.m = 0
  /\ call.order \in {"R", "C"}
  /\ call.order = "C" => Len(call.inputs.shape) >= 2

C4_ApplySparsity ==
  (call.fn = "apply_sparsity" /\ ret.tag # "pending") =>
    /\ ret.tag = "ok"
    /\ ret.val.shape = call.inputs.shape
    /\ \A p \in 1..Size(call.inputs) :
         /\ call.mask.data[p] => ret.val.data[p] = call.inputs.data[p]
         /\ ~call.mask.data[p] => ret.val.data[p] = 0
    /\ apply_sparsity(ret.val, call.mask) = ret.val

\* a non-zero entry is zeroed and another one is kept
C4_Witness ==
  /\ call.fn = "apply_sparsity"
  /\ ret.tag = "ok"
  /\ \E p, q \in 1..Size(call.inputs) :
       /\ call.mask.data[p] /\ call.inputs.data[p] # 0 /\ ret.val.data[p] # 0
       /\ ~call.mask.data[q] /\ call.inputs.data[q] # 0 /\ ret.val.data[q] = 0

----------------------------------------------------------------------------
(* SpecUnstructured: get_sparsity_mask_unstructured, each result fed back   *)
(* as the next current mask.                                                *)

PruneRates == {0, 30, 60, 100}

Scenario_U == Tensor(<<5>>, <<1, 2, 3, 4, 5>>)

UnstructuredInputs ==
  UNION {TensorsOf(<<a>>, Values) : a \in 1..MaxLenU} \cup {Scenario_U}

InitUnstructured ==
  /\ \E t \in UnstructuredInputs, q \in PruneRates :
       \E k \in {None} \cup Masks(t.shape) :
         call = [fn |-> "get_sparsity_mask_unstructured", inputs |-> t,
                 mask |-> k, prune_rate |-> q]
  /\ ret = NoRet
  /\ LayerIdle

Call_get_sparsity_mask_unstructured ==
  /\ call.fn = "get_sparsity_mask_unstructured"
  /\ ret = NoRet
  /\ ret' = Ok(get_sparsity_mask_unstructured(call.inputs, call.mask, call.prune_rate))
  /\ UNCHANGED <<call, cfg, PACK_4BIT_DIM, theta, out>>

\* the caller keeps the result as its current mask and prunes again
Feed_back ==
  /\ call.fn = "get_sparsity_mask_unstructured"
  /\ ret.tag = "ok"
  /\ \E q \in PruneRates :
       call' = [call EXCEPT !.mask = ret.val, !.prune_rate = q]
  /\ ret' = NoRet
  /\ UNCHANGED <<cfg, PACK_4BIT_DIM, theta, out>>

NextUnstructured ==
  \/ Call_get_sparsity_mask_unstructured
  \/ Feed_back

SpecUnstructured == InitUnstructured /\ [][NextUnstructured]_vars

\* the positions pruned so far: by the result once there is one, by the
\* current mask before
Pruned ==
  IF ret.tag = "ok" THEN {p \in 1..Size(ret.val) : ~ret.val.data[p]}
  ELSE IF call.mask = None THEN {}
  ELSE {p \in 1..Size(call.mask) : ~call.mask.data[p]}

\* C2: with a non-null current mask the result is a subset of it (no position
\* true that the current mask had false), so over calls that feed each result
\* back as the current mask the set of pruned positions never shrinks.
C2_PrunedNeverShrinks == [][Pruned \subseteq Pruned']_vars

\* a call with a current mask that already prunes a non-zero entry, and whose
\* result prunes one more and keeps another
C2_Witness ==
  /\ ret.tag = "ok"
  /\ call.mask # None
  /\ \E p, q, r \in 1..Size(call.inputs) :
       /\ ~call.mask.data[p] /\ call.inputs.data[p] # 0 /\ ~ret.val.data[p]
       /\ call.mask.data[q] /\ ~ret.val.data[q]
       /\ call.mask.data[r] /\ ret.val.data[r]

\* the k-th smallest (k from 0) element of a, found by counting
OrderStat(a, k) ==
  CHOOSE v \in {a[i] : i \in 1..Len(a)} :
    /\ Cardinality({i \in 1..Len(a) : a[i] < v}) <= k
    /\ k < Cardinality({i \in 1..Len(a) : a[i] <= v})

\* C3: the result keeps exactly the positions whose absolute value, after the
\* already-pruned positions are zeroed, is strictly greater than the
\* prune_rate-th percentile (linear interpolation between order statistics) of
\* those values; [1,2,3,4,5] at prune_rate 60 keeps exactly 4 and 5, and
\* prune_rate 100 keeps nothing.
C3_UnstructuredThreshold ==
  (call.fn = "get_sparsity_mask_unstructured" /\ ret.tag = "ok") =>
    LET N == Size(call.inputs)
        a == [p \in 1..N |->
                IF call.mask # None /\ ~call.mask.data[p] THEN 0
                ELSE Abs(call.inputs.data[p])]
        pos == call.prune_rate * (N - 1)
        lo == pos \div 100
        w == pos % 100
        hi == IF w = 0 THEN lo ELSE lo + 1
        threshold100 == (OrderStat(a, lo) * (100 - w)) + (OrderStat(a, hi) * w)
    IN  /\ ret.val.shape = call.inputs.shape
        /\ \A p \in 1..N : ret.val.data[p] <=> (100 * a[p] > threshold100)
        /\ (call.inputs = Scenario_U /\ call.mask = None /\ call.prune_rate = 60) =>
             {call.inputs.data[p] : p \in {x \in 1..N : ret.val.data[x]}} = {4, 5}
        /\ call.prune_rate = 100 => \A p \in 1..N : ~ret.val.data[p]

C3_Witness ==
  /\ call.inputs = Scenario_U
  /\ call.mask = None
  /\ call.prune_rate = 60
  /\ ret = Ok(Tensor(<<5>>, <<FALSE, FALSE, FALSE, TRUE, TRUE>>))

----------------------------------------------------------------------------
(* linears.py: the sub-channel shape and the contraction equations.         *)

\* list.insert(i, x) for 0 <= i <= len(l)
list_insert(l, i, x) == SubSeq(l, 1, i) \o <<x>> \o SubSeq(l, i + 1, Len(l))

get_sub_channel_shape_swapped(shape, block_size, contract_dim) ==
  IF shape[contract_dim + 1] % block_size # 0 THEN Raise("ValueError")
  ELSE Ok([list_insert(shape, contract_dim, block_size)
             EXCEPT ![contract_dim + 2] = shape[contract_dim + 1] \div block_size])

\* Linear._get_sub_channel_shape; contract_dim is 0-based
get_sub_channel_shape(shape, block_size, contract_dim) ==
  LET sub_channels == shape[contract_dim + 1] \div block_size
      rem == shape[contract_dim + 1] % block_size
  IN  IF rem # 0 THEN Raise("ValueError")
      ELSE LET out_shape == list_insert(shape, contract_dim, sub_channels)
           IN  Ok([out_shape EXCEPT ![contract_dim + 2] = block_size])

RECURSIVE SumOver(_, _)
\* sum of f[0] .. f[n-1]
SumOver(f, n) == IF n = 0 THEN 0 ELSE f[n - 1] + SumOver(f, n - 1)

\* '...y,yz->...z'
einsum_y_yz(x, w) ==
  LET y == w.shape[1]
      z == w.shape[2]
      batch == Size(x) \div y
  IN  Tensor(SubSeq(x.shape, 1, Len(x.shape) - 1) \o <<z>>,
             [p \in 1..(batch * z) |->
                LET b == (p - 1) \div z
                    k == (p - 1) % z
                IN  SumOver([j \in 0..(y - 1) |->
                               x.data[(b * y) + j + 1] * w.data[(j * z) + k + 1]], y)])

einsum_sc_scz_as_csz(x, w) ==
  LET s == w.shape[1]
      c == w.shape[2]
      z == w.shape[3]
      batch == Size(x) \div (s * c)
  IN  Tensor(SubSeq(x.shape, 1, Len(x.shape) - 1) \o <<z>>,
             [p \in 1..(batch * s * z) |->
                LET b == (p - 1) \div (s * z)
                    i == ((p - 1) % (s * z)) \div z
                    k == (p - 1) % z
                IN  SumOver([j \in 0..(c - 1) |->
                               x.data[(b * s * c) + (i * c) + j + 1]
                                 * w.data[(((j * s) + i) % (s * c)) * z + k + 1]], c)])

\* '...sc,scz->...sz'
einsum_sc_scz(x, w) ==
  LET s == w.shape[1]
      c == w.shape[2]
      z == w.shape[3]
      batch == Size(x) \div (s * c)
  IN  Tensor(SubSeq(x.shape, 1, Len(x.shape) - 1) \o <<z>>,
             [p \in 1..(batch * s * z) |->
                LET b == (p - 1) \div (s * z)
                    i == ((p - 1) % (s * z)) \div z
                    k == (p - 1) % z
                IN  SumOver([j \in 0..(c - 1) |->
                               x.data[(b * s * c) + (i * c) + j + 1]
                                 * w.data[(((i * c) + j) * z) + k + 1]], c)])

\* '...sz,sz->...z'
einsum_sz_sz(t, scale) ==
  LET s == scale.shape[1]
      z == scale.shape[2]
      batch == Size(t) \div (s * z)
  IN  Tensor(SubSeq(t.shape, 1, Len(t.shape) - 2) \o <<z>>,
             [p \in 1..(batch * z) |->
                LET b == (p - 1) \div z
                    k == (p - 1) % z
                IN  SumOver([i \in 0..(s - 1) |->
                               t.data[(b * s * z) + (i * z) + k + 1]
                                 * scale.data[(i * z) + k + 1]], s)])

\* __call__, lines 234-252, on a 2-D weight with the contraction primitive
\* taken as the plain einsum of 'eqn' on the reshaped operands followed by
\* 'scale_eqn' with a scale of ones
sub_channel_contract(inputs, w, block_size) ==
  LET inputs_shape == get_sub_channel_shape(inputs.shape, block_size, Len(inputs.shape) - 1)
  IN  IF inputs_shape.tag = "raise" THEN inputs_shape
      ELSE
        LET reshape == get_sub_channel_shape(w.shape, block_size, 0)
        IN  IF reshape.tag = "raise" THEN reshape
            ELSE
              LET x == Reshape(inputs, inputs_shape.val)
                  wr == Reshape(w, reshape.val)
                  ones == Tensor(<<wr.shape[1], wr.shape[3]>>,
                                 [p \in 1..(wr.shape[1] * wr.shape[3]) |-> 1])
              IN  Ok(einsum_sz_sz(einsum_sc_scz(x, wr), ones))

----------------------------------------------------------------------------
(* SpecSubChannel: _get_sub_channel_shape on bounded shapes, and the        *)
(* blocked contraction on bounded integer operands.                         *)

ShapesUpTo(rank, dim) == UNION {[1..r -> 1..dim] : r \in 1..rank}

InitShape ==
  \E shape \in ShapesUpTo(3, MaxDim), block_size \in 1..MaxDim :
    \E contract_dim \in 0..(Len(shape) - 1) :
      call = [fn |-> "_get_sub_channel_shape", shape |-> shape,
              block_size |-> block_size, contract_dim |-> contract_dim]

\* x is [batch, y] and w is [y, z], neither with more than MaxContract elements
InitContract ==
  \E y \in 1..MaxContract, batch \in 1..2, z \in 1..2 :
    /\ batch * y <= MaxContract
    /\ y * z <= MaxContract
    /\ \E x \in TensorsOf(<<batch, y>>, -1..1), w \in TensorsOf(<<y, z>>, -1..1),
          block_size \in 1..(y + 1) :
         call = [fn |-> "contract", x |-> x, w |-> w, block_size |-> block_size]

InitSubChannel ==
  /\ InitShape \/ InitContract
  /\ ret = NoRet
  /\ LayerIdle

Call_get_sub_channel_shape ==
  /\ call.fn = "_get_sub_channel_shape"
  /\ ret = NoRet
  /\ ret' = get_sub_channel_shape(call.shape, call.block_size, call.contract_dim)
  /\ UNCHANGED <<call, cfg, PACK_4BIT_DIM, theta, out>>

Call_contract ==
  /\ call.fn = "contract"
  /\ ret = NoRet
  /\ ret' = sub_channel_contract(call.x, call.w, call.block_size)
  /\ UNCHANGED <<call, cfg, PACK_4BIT_DIM, theta, out>>

NextSubChannel ==
  \/ Call_get_sub_channel_shape
  \/ Call_contract

SpecSubChannel == InitSubChannel /\ [][NextSubChannel]_vars

\* C5: when block_size divides shape[contract_dim] the result is one axis
\* longer, holds shape[contract_dim]/block_size at contract_dim and block_size
\* at contract_dim+1, keeps every other axis in order and keeps the product of
\* the sizes; otherwise the call raises ValueError.
C5_SubChannelShape ==
  (call.fn = "_get_sub_channel_shape" /\ ret.tag # "pending") =>
    LET d == call.contract_dim + 1
        n == Len(call.shape)
    IN  IF call.shape[d] % call.block_size = 0
        THEN /\ ret.tag = "ok"
             /\ Len(ret.val) = n + 1
             /\ ret.val[d] * call.block_size = call.shape[d]
             /\ ret.val[d + 1] = call.block_size
             /\ \A k \in 1..(d - 1) : ret.val[k] = call.shape[k]
             /\ \A k \in (d + 1)..n : ret.val[k + 1] = call.shape[k]
             /\ Prod(ret.val) = Prod(call.shape)
        ELSE ret = Raise("ValueError")

\* a middle axis of 4 split into 2 sub-channels of block size 2
C5_Witness ==
  /\ call.fn = "_get_sub_channel_shape"
  /\ call.shape = <<3, 4, 2>> /\ call.block_size = 2 /\ call.contract_dim = 1
  /\ ret = Ok(<<3, 2, 2, 2>>)

\* C6: for block_size dividing y, the blocked contraction ('...sc,scz->...sz'
\* on the reshaped operands, then '...sz,sz->...z' with unit scales) equals the
\* unblocked contraction '...y,yz->...z'.
C6_BlockedEqualsFull ==
  (call.fn = "contract" /\ ret.tag # "pending"
     /\ call.w.shape[1] % call.block_size = 0) =>
    ret = Ok(einsum_y_yz(call.x, call.w))

\* two sub-channels of two, a result that is not zero and in which the two
\* sub-channels contribute differently
C6_Witness ==
  /\ call.fn = "contract"
  /\ call.x = Tensor(<<1, 4>>, <<1, 1, 1, -1>>)
  /\ call.w = Tensor(<<4, 1>>, <<1, 0, 1, -1>>)
  /\ call.block_size = 2
  /\ ret = Ok(Tensor(<<1, 1>>, <<3>>))

----------------------------------------------------------------------------
(* linears.py: the Linear layer.  cfg holds the dataclass fields the layer  *)
(* reads: input_dims, output_dims, rank, weight_split_dims_mapping.wt,      *)
(* mesh_shape and quantization (None, or mode, quantization_type,           *)
(* weight_params and whether act_params asks for static quantization).      *)

QuantizationModes == {"TRAINING", "INFERENCE"}
QuantizationTypes == {"PTQ", "FQ", "FQ_VN", "AQT"}
Ranks == {-1, 2}
\* a sharding is None or the list of its per-axis assignments
Sharding(dims) == [dims |-> dims]
WeightShardings == {None, Sharding(<<"mdl", "data">>)}
MeshShape == <<1, 2>>
BatchShapes == {<<2>>, <<1, 3>>}
ActivationShardings == {None, Sharding(<<"data", "seq", "mdl">>)}

scale_name == "w_scale"
zp_name == "w_zp"

WeightParams ==
  [block_size : 0..MaxInputDims, use_symmetric : BOOLEAN, precision : {4, 8},
   use_int4_packed_weights : BOOLEAN]

Quantizations ==
  {None} \cup
  {[mode |-> md, quantization_type |-> ty, weight_params |-> wp, static_act |-> st] :
     md \in QuantizationModes, ty \in QuantizationTypes, wp \in WeightParams,
     st \in BOOLEAN}

\* quantizer.QuantizationLayer._do_static_activation_quantization
do_static_activation_quantization(c) ==
  c.quantization # None /\ c.quantization.static_act

\* Linear._sub_channel_block_size (weight_params is never None here)
sub_channel_block_size(c) ==
  IF c.quantization # None /\ c.quantization.weight_params.block_size > 0
  THEN c.quantization.weight_params.block_size
  ELSE 0

WeightHParams(shape, mesh_shape, tensor_split_dims_mapping) ==
  [shape |-> shape, mesh_shape |-> mesh_shape,
   tensor_split_dims_mapping |-> tensor_split_dims_mapping]

\* Linear._get_weight_hparams: Ok of the pair, or the ValueError of
\* _get_sub_channel_shape
get_weight_hparams(c, using_sub_channel) ==
  LET wt == c.wt
      block_size == sub_channel_block_size(c)
  IN  IF using_sub_channel
      THEN
        LET sub == get_sub_channel_shape(<<c.input_dims, c.output_dims>>, block_size, 0)
        IN  IF sub.tag = "raise" THEN sub
            ELSE
              LET weight_shape == sub.val
                  scale_shape == <<weight_shape[1], weight_shape[3]>>
                  weight_sharding == IF wt # None
                                     THEN Sharding(list_insert(wt.dims, 1, -1))
                                     ELSE None
                  scale_sharding == IF wt # None THEN wt ELSE None
              IN  Ok([weight |-> WeightHParams(weight_shape, c.mesh_shape, weight_sharding),
                      scale |-> WeightHParams(scale_shape, c.mesh_shape, scale_sharding)])
      ELSE
        LET scale_sharding == IF wt # None /\ Len(wt.dims) > 1
                              THEN Sharding(<<wt.dims[2]>>)
                              ELSE None
        IN  Ok([weight |-> WeightHParams(<<c.input_dims, c.output_dims>>, c.mesh_shape, wt),
                scale |-> WeightHParams(<<c.output_dims>>, c.mesh_shape, scale_sharding)])

\* setup, lines 162-169: using_sub_channel
setup_using_sub_channel(c) ==
  /\ sub_channel_block_size(c) > 0
  /\ c.quantization # None
  /\ c.quantization.mode = "INFERENCE"

\* what set_up_weights is told about one weight
\* and create_aux_variables about its sparsity variables
Declared(weight_params, scale_shape, pack_dim) ==
  [shape |-> weight_params.shape,
   tensor_split_dims_mapping |-> weight_params.tensor_split_dims_mapping,
   scale_shape |-> scale_shape, pack_dim |-> pack_dim,
   aux_shape |-> weight_params.shape]

forward_uses_sub_channel_inference_only(c) ==
  /\ c.quantization # None
  /\ c.quantization.mode = "INFERENCE"
  /\ sub_channel_block_size(c) > 0

\* __call__, lines 221-228: the condition selecting the sub-channel equations
forward_uses_sub_channel(c) ==
  /\ c.quantization # None
  /\ (c.quantization.mode = "INFERENCE" \/ c.quantization.quantization_type = "AQT")
  /\ sub_channel_block_size(c) > 0

\* one call of the contraction primitive: the keyword arguments it is given,
\* the operand shapes, and the shape the equations give the result
Einsum(x_shape, w_shape, weight_name, params) ==
  [x_shape |-> x_shape, w_shape |-> w_shape, weight_name |-> weight_name,
   params |-> params,
   out_shape |->
     IF params.eqn = "...y,yz->...z"
     THEN SubSeq(x_shape, 1, Len(x_shape) - 1) \o <<w_shape[Len(w_shape)]>>
     ELSE SubSeq(x_shape, 1, Len(x_shape) - 2) \o <<w_shape[Len(w_shape)]>>]

\* one call of sparsifiy: the weight and the activation handed to it
Sparsify(name, w_shape, inputs_shape) ==
  [name |-> name, w_shape |-> w_shape, inputs_shape |-> inputs_shape]

q_einsum_params_sub_channel(pack_dim) ==
  [eqn |-> "...sc,scz->...sz", reshape |-> <<>>, pack_dim |-> pack_dim]

\* __call__, lines 196-200
q_einsum_params(pack_dim) ==
  [eqn |-> "...y,yz->...z", reshape |-> <<>>, pack_dim |-> pack_dim]

\* lines 255-257: a 3-D output sharding is cut down for a 2-D output
adjust_ap_out(ap_out, out_ndim) ==
  IF ap_out # None /\ Len(ap_out.dims) = 3 /\ out_ndim = 2
  THEN Sharding(<<ap_out.dims[1], ap_out.dims[3]>>)
  ELSE ap_out

\* __call__: Ok of the calls made and the output, or the ValueError of
\* _get_sub_channel_shape
forward(c, pack_dim, th, inputs_shape, ap_out) ==
  LET base == q_einsum_params(pack_dim)
  IN  IF c.rank > 0
      THEN
        LET first == Einsum(inputs_shape, th.w_a.shape, "w_a", base)
            second == Einsum(first.out_shape, th.w_b.shape, "w_b", base)
        IN  Ok([sparsified |-> <<Sparsify("w_a", th.w_a.shape, inputs_shape),
                                 Sparsify("w_b", th.w_b.shape, inputs_shape)>>,
                einsums |-> <<first, second>>,
                out_shape |-> second.out_shape,
                ap_out |-> adjust_ap_out(ap_out, Len(second.out_shape))])
      ELSE
        LET sparsified == <<Sparsify("w", th.w.shape, inputs_shape)>>
            block_size == sub_channel_block_size(c)
        IN  IF forward_uses_sub_channel(c)
            THEN
              LET x_shape == get_sub_channel_shape(inputs_shape, block_size,
                                                   Len(inputs_shape) - 1)
              IN  IF x_shape.tag = "raise" THEN x_shape
                  ELSE
                    LET reshape ==
                          IF Len(th.w.shape) = 2
                          THEN get_sub_channel_shape(th.w.shape, block_size, 0)
                          ELSE Ok(<<>>)
                    IN  IF reshape.tag = "raise" THEN reshape
                        ELSE
                          LET params == [eqn |-> "...sc,scz->...sz",
                                         scale_eqn |-> "...sz,sz->...z",
                                         zp_eqn |-> "...sc,sz->...z",
                                         reshape |-> reshape.val,
                                         pack_dim |-> pack_dim]
                              e == Einsum(x_shape.val, th.w.shape, "w", params)
                          IN  Ok([sparsified |-> sparsified,
                                  einsums |-> <<e>>,
                                  out_shape |-> e.out_shape,
                                  ap_out |-> adjust_ap_out(ap_out, Len(e.out_shape))])
            ELSE
              LET e == Einsum(inputs_shape, th.w.shape, "w", base)
              IN  Ok([sparsified |-> sparsified,
                      einsums |-> <<e>>,
                      out_shape |-> e.out_shape,
                      ap_out |-> adjust_ap_out(ap_out, Len(e.out_shape))])

Replicated == Sharding(<<>>)

\* base_layer._weight_hparam_to_pspec: the sharding descriptor of a weight;
\* the replicated one when there is no mesh or no mapping
weight_hparam_to_pspec(h) ==
  IF h.mesh_shape = None \/ h.tensor_split_dims_mapping = None
  THEN Replicated
  ELSE h.tensor_split_dims_mapping

partition_spec_keys_without_zp(c) == {"w", scale_name}

\* lines 285-289: the zero-point entry is added unless use_symmetric
partition_spec_keys(c) ==
  IF ~c.quantization.weight_params.use_symmetric
  THEN {"w", scale_name, zp_name}
  ELSE {"w", scale_name}

\* Linear.quantized_partition_specs
quantized_partition_specs(c) ==
  IF c.quantization = None THEN Raise("AssertionError")
  ELSE
    LET block_size == sub_channel_block_size(c)
        hp == get_weight_hparams(c, block_size > 0)
    IN  IF hp.tag = "raise" THEN hp
        ELSE
          LET scale_hparams ==
                IF block_size = 0
                THEN [hp.val.scale EXCEPT !.shape = <<>>, !.mesh_shape = None]
                ELSE hp.val.scale
              weight_pspec == weight_hparam_to_pspec(hp.val.weight)
              scale_pspec == weight_hparam_to_pspec(scale_hparams)
              keys == partition_spec_keys(c)
          IN  IF do_static_activation_quantization(c)
              THEN Raise("NotImplementedError")
              ELSE Ok([k \in keys |-> IF k = "w" THEN weight_pspec ELSE scale_pspec])

\* operations.reduce_precision: the shapes of (q_w, q_s, zp); the scale keeps
\* the weight's axes with each contraction axis (0-based) reduced to 1
reduce_precision_shapes(w_shape, contract_dims, use_symmetric) ==
  LET reduced == [k \in 1..Len(w_shape) |->
                    IF \E i \in 1..Len(contract_dims) : contract_dims[i] + 1 = k
                    THEN 1 ELSE w_shape[k]]
  IN  [q_w |-> w_shape, q_s |-> [shape |-> reduced],
       zp |-> IF use_symmetric THEN None ELSE [shape |-> reduced]]

RECURSIVE squeeze_contract_only(_, _)
squeeze_contract_only(shape, contract_dims) ==
  IF shape = <<>> THEN <<>>
  ELSE IF \E i \in 1..Len(contract_dims) : contract_dims[i] = 0
       THEN Tail(shape)
       ELSE <<Head(shape)>> \o
              squeeze_contract_only(Tail(shape),
                                    [i \in 1..Len(contract_dims) |-> contract_dims[i] - 1])

RECURSIVE squeeze(_)
\* jnp.squeeze(a).shape: every axis of length 1 is dropped
squeeze(shape) ==
  IF shape = <<>> THEN <<>>
  ELSE IF Head(shape) = 1 THEN squeeze(Tail(shape))
  ELSE <<Head(shape)>> \o squeeze(Tail(shape))

\* weight_quantizer.quantize(w, contract_dims, squeeze_scale=True): as
\* reduce_precision, with the reduced axes dropped from the scale
aqt_quantize_shapes(w_shape, contract_dims, use_symmetric) ==
  LET dropped == squeeze_contract_only(w_shape, contract_dims)
  IN  [q_w |-> w_shape, q_s |-> [shape |-> dropped],
       zp |-> IF use_symmetric THEN None ELSE [shape |-> dropped]]

\* utils.pack_4bit: two codes per container element along pack_dim (0-based);
\* fails on an odd length
pack_4bit(shape, pack_dim) ==
  IF shape[pack_dim + 1] % 2 # 0 THEN Raise("ValueError")
  ELSE Ok([shape EXCEPT ![pack_dim + 1] = shape[pack_dim + 1] \div 2])

quantize_weight_pack_any_precision(c) ==
  c.quantization.weight_params.use_int4_packed_weights

\* quantize_weight, lines 357-360
quantize_weight_packs(c) ==
  /\ c.quantization.weight_params.precision = 4
  /\ c.quantization.weight_params.use_int4_packed_weights

\* Linear.quantize_weight: Ok of the returned mapping (shapes only), or what
\* it raises
quantize_weight(c, pack_dim, th) ==
  IF c.quantization = None THEN Raise("AssertionError")
  ELSE IF "w" \notin DOMAIN th THEN Raise("AttributeError")   \* self.theta.w
  ELSE
    LET block_size == sub_channel_block_size(c)
        wp == c.quantization.weight_params
        reshaped == IF block_size > 0
                    THEN get_sub_channel_shape(th.w.shape, block_size, 0)
                    ELSE Ok(th.w.shape)
        contract_dims == IF block_size > 0 THEN <<1>> ELSE <<0>>
    IN  IF reshaped.tag = "raise" THEN reshaped
        ELSE IF do_static_activation_quantization(c) THEN Raise("NotImplementedError")
        ELSE
          LET q == IF c.quantization.quantization_type \in {"PTQ", "FQ", "FQ_VN"}
                   THEN LET r == reduce_precision_shapes(reshaped.val, contract_dims,
                                                         wp.use_symmetric)
                        IN  [q_w |-> r.q_w, q_s |-> [shape |-> squeeze(r.q_s.shape)],
                             zp |-> IF r.zp # None
                                    THEN [shape |-> squeeze(r.zp.shape)]
                                    ELSE None]
                   ELSE aqt_quantize_shapes(reshaped.val, contract_dims, wp.use_symmetric)
              packed == IF quantize_weight_packs(c)
                        THEN pack_4bit(q.q_w, pack_dim)
                        ELSE Ok(q.q_w)
              keys == IF wp.use_symmetric THEN {"w", scale_name}
                      ELSE {"w", scale_name, zp_name}
          IN  IF packed.tag = "raise" THEN packed
              ELSE Ok([k \in keys |->
                         IF k = "w"
                         THEN [shape |-> packed.val, packed |-> quantize_weight_packs(c),
                               pack_dim |-> pack_dim]
                         ELSE IF k = scale_name THEN q.q_s
                         ELSE q.zp])

----------------------------------------------------------------------------
(* SpecLinear: a Linear layer of any bounded configuration; setup runs      *)
(* once, then forward, quantized_partition_specs and quantize_weight in any *)
(* order.                                                                   *)

NoCall == [fn |-> "none"]

\* the low-rank layer of the scenario: input_dims=8, rank=2, output_dims=4
Scenario_LowRank ==
  [input_dims : {8}, output_dims : {4}, rank : {2},
   wt : WeightShardings, mesh_shape : {MeshShape}, quantization : Quantizations]

Configs ==
  [input_dims : 1..MaxInputDims, output_dims : 1..MaxOutputDims, rank : Ranks,
   wt : WeightShardings, mesh_shape : {MeshShape}, quantization : Quantizations]
    \cup Scenario_LowRank

InitLinear ==
  /\ cfg \in Configs
  /\ PACK_4BIT_DIM = 0
  /\ theta = None
  /\ out = NoRet
  /\ call = NoCall
  /\ ret = NoRet

Done(op, res) == [tag |-> "done", op |-> op, res |-> res]

setup_low_rank ==
  /\ cfg.rank > 0
  /\ LET wp_a == WeightHParams(<<cfg.input_dims, cfg.rank>>, cfg.mesh_shape, cfg.wt)
         wp_b == WeightHParams(<<cfg.rank, cfg.output_dims>>, cfg.mesh_shape, cfg.wt)
     IN  theta' = [w_a |-> Declared(wp_a, <<cfg.rank>>, PACK_4BIT_DIM),
                   w_b |-> Declared(wp_b, <<cfg.output_dims>>, PACK_4BIT_DIM)]
  /\ out' = Done("setup", Ok(None))
  /\ UNCHANGED PACK_4BIT_DIM

setup_full_rank ==
  /\ ~(cfg.rank > 0)
  /\ LET block_size == sub_channel_block_size(cfg)
         pack_dim == IF block_size > 0 THEN 1 ELSE PACK_4BIT_DIM
         hp == get_weight_hparams(cfg, setup_using_sub_channel(cfg))
     IN  /\ PACK_4BIT_DIM' = pack_dim
         /\ IF hp.tag = "raise"
            THEN /\ theta' = theta
                 /\ out' = Done("setup", hp)
            ELSE /\ theta' = [w |-> Declared(hp.val.weight, hp.val.scale.shape, pack_dim)]
                 /\ out' = Done("setup", Ok(None))

Setup ==
  /\ cfg # NoLayer
  /\ out = NoRet
  /\ setup_low_rank \/ setup_full_rank
  /\ UNCHANGED <<call, ret, cfg>>

IsSetUp == cfg # NoLayer /\ theta # None

Forward ==
  /\ IsSetUp
  /\ \E batch \in BatchShapes, ap_out \in ActivationShardings :
       LET inputs_shape == batch \o <<cfg.input_dims>>
       IN  out' = [tag |-> "done", op |-> "__call__", inputs_shape |-> inputs_shape,
                   res |-> forward(cfg, PACK_4BIT_DIM, theta, inputs_shape, ap_out)]
  /\ UNCHANGED <<call, ret, cfg, PACK_4BIT_DIM, theta>>

QuantizedPartitionSpecs ==
  /\ IsSetUp
  /\ out' = Done("quantized_partition_specs", quantized_partition_specs(cfg))
  /\ UNCHANGED <<call, ret, cfg, PACK_4BIT_DIM, theta>>

QuantizeWeight ==
  /\ IsSetUp
  /\ out' = Done("quantize_weight", quantize_weight(cfg, PACK_4BIT_DIM, theta))
  /\ UNCHANGED <<call, ret, cfg, PACK_4BIT_DIM, theta>>

NextLinear ==
  \/ Setup
  \/ Forward
  \/ QuantizedPartitionSpecs
  \/ QuantizeWeight

SpecLinear == InitLinear /\ [][NextLinear]_vars

----------------------------------------------------------------------------
(* Claims on the Linear layer.                                              *)

Quantized == cfg.quantization # None

\* the configured block size, 0 without a quantization configuration
BlockSize == IF Quantized THEN cfg.quantization.weight_params.block_size ELSE 0

Symmetric == cfg.quantization.weight_params.use_symmetric

Finished(op) == out.tag = "done" /\ out.op = op

Returned(op) == Finished(op) /\ out.res.tag = "ok"

\* the configurations the claim calls sub-channel mode
SubChannelMode ==
  /\ cfg.rank <= 0
  /\ BlockSize > 0
  /\ (cfg.quantization.mode = "INFERENCE" \/ cfg.quantization.quantization_type = "AQT")

StoredBlocked ==
  /\ "w" \in DOMAIN theta
  /\ theta.w.shape = <<cfg.input_dims \div BlockSize, BlockSize, cfg.output_dims>>
  /\ theta.w.scale_shape = <<cfg.input_dims \div BlockSize, cfg.output_dims>>

StoredFull ==
  /\ "w" \in DOMAIN theta
  /\ theta.w.shape = <<cfg.input_dims, cfg.output_dims>>

UsesSubChannelEquations(e) ==
  /\ e.params.eqn = "...sc,scz->...sz"
  /\ "scale_eqn" \in DOMAIN e.params /\ e.params.scale_eqn = "...sz,sz->...z"
  /\ "zp_eqn" \in DOMAIN e.params /\ e.params.zp_eqn = "...sc,sz->...z"

UsesFullEquation(e) ==
  /\ e.params.eqn = "...y,yz->...z"
  /\ DOMAIN e.params = {"eqn", "reshape", "pack_dim"}

C8_ScaleShape ==
  (/\ Returned("quantize_weight")
   /\ cfg.quantization.quantization_type \in {"PTQ", "FQ", "FQ_VN"}
   /\ StoredFull) =>
    LET expected == IF BlockSize = 0 THEN <<cfg.output_dims>>
                    ELSE <<cfg.input_dims \div BlockSize, cfg.output_dims>>
    IN  /\ out.res.val[scale_name].shape = expected
        /\ ~Symmetric => out.res.val[zp_name].shape = expected

\* C9 as stated: an assertion without a quantization configuration,
\* NotImplementedError for static activation quantization, otherwise a mapping
\* with keys {w, scale} (symmetric) or {w, scale, zero-point}, packed only for
\* precision 4 with use_int4_packed_weights.
C9_AsStated ==
  Finished("quantize_weight") =>
    IF ~Quantized THEN out.res = Raise("AssertionError")
    ELSE IF cfg.quantization.static_act THEN out.res = Raise("NotImplementedError")
    ELSE /\ out.res.tag = "ok"
         /\ DOMAIN out.res.val = IF Symmetric THEN {"w", scale_name}
                                 ELSE {"w", scale_name, zp_name}
         /\ out.res.val["w"].packed <=>
              (cfg.quantization.weight_params.precision = 4
                 /\ cfg.quantization.weight_params.use_int4_packed_weights)

\* C9, amended: an assertion without a quantization configuration; with one,
\* a low-rank layer (no weight w) fails, a block_size > 0 that does not divide
\* the stored weight's first axis gives ValueError, and otherwise static
\* activation quantization gives NotImplementedError; otherwise the call
\* returns the mapping with exactly the stated keys, packed only for precision
\* 4 with use_int4_packed_weights, unless that packing itself fails.
C9_QuantizeWeight ==
  Finished("quantize_weight") =>
    IF ~Quantized THEN out.res = Raise("AssertionError")
    ELSE IF cfg.rank > 0 THEN out.res.tag = "raise"
    ELSE IF BlockSize > 0 /\ theta.w.shape[1] % BlockSize # 0
    THEN out.res = Raise("ValueError")
    ELSE IF cfg.quantization.static_act THEN out.res = Raise("NotImplementedError")
    ELSE LET packs == /\ cfg.quantization.weight_params.precision = 4
                      /\ cfg.quantization.weight_params.use_int4_packed_weights
         IN  IF out.res.tag = "raise" THEN packs
             ELSE /\ DOMAIN out.res.val = IF Symmetric THEN {"w", scale_name}
                                          ELSE {"w", scale_name, zp_name}
                  /\ out.res.val["w"].packed <=> packs

\* an asymmetric 4-bit packed export with its three keys
C9_Witness ==
  /\ Returned("quantize_weight")
  /\ ~Symmetric
  /\ cfg.quantization.weight_params.precision = 4
  /\ DOMAIN out.res.val = {"w", scale_name, zp_name}
  /\ out.res.val["w"].packed

PartitionSpecsAsClaimed ==
  /\ out.res.tag = "ok"
  /\ DOMAIN out.res.val = IF Symmetric THEN {"w", scale_name}
                          ELSE {"w", scale_name, zp_name}
  /\ ~Symmetric => out.res.val[zp_name] = out.res.val[scale_name]
  /\ BlockSize = 0 => out.res.val[scale_name] = Replicated
  /\ (BlockSize > 0 /\ cfg.wt # None) =>
       /\ out.res.val["w"] = Sharding(<<cfg.wt.dims[1], -1, cfg.wt.dims[2]>>)
       /\ out.res.val[scale_name] = cfg.wt

\* C10 as stated: failure without a quantization configuration, otherwise
\* descriptors for weight and scale, a zero-point descriptor equal to the
\* scale's iff asymmetric, a replicated scale for block_size 0, and for
\* block_size > 0 the weight sharding with an unsharded axis inserted at
\* position 1 (weight) and the weight sharding (scale).
C10_AsStated ==
  Finished("quantized_partition_specs") =>
    IF ~Quantized THEN out.res.tag = "raise" ELSE PartitionSpecsAsClaimed

\* C10, amended: as stated, except that with a quantization configuration the
\* call fails with ValueError when block_size > 0 does not divide input_dims
\* and otherwise with NotImplementedError when static activation quantization
\* is requested.
C10_PartitionSpecs ==
  Finished("quantized_partition_specs") =>
    IF ~Quantized THEN out.res = Raise("AssertionError")
    ELSE IF BlockSize > 0 /\ cfg.input_dims % BlockSize # 0
    THEN out.res = Raise("ValueError")
    ELSE IF cfg.quantization.static_act THEN out.res = Raise("NotImplementedError")
    ELSE PartitionSpecsAsClaimed

\* an asymmetric sub-channel layer with a weight sharding
C10_Witness ==
  /\ Returned("quantized_partition_specs")
  /\ ~Symmetric
  /\ BlockSize = 2
  /\ out.res.val["w"] = Sharding(<<"mdl", -1, "data">>)
  /\ out.res.val[scale_name] = Sharding(<<"mdl", "data">>)
  /\ out.res.val[zp_name] = Sharding(<<"mdl", "data">>)

\* the leading axes of the input of the last forward
Batch == SubSeq(out.inputs_shape, 1, Len(out.inputs_shape) - 1)

\* C13: on a low-rank layer forward makes exactly two contractions, inputs
\* with w_a [input_dims, rank] and then the intermediate with w_b
\* [rank, output_dims], both with '...y,yz->...z' and no reshape of activation
\* or weight, whatever block_size is configured, and the output has shape
\* [..., output_dims]; input_dims=8, rank=2, output_dims=4 maps [B,8] to [B,4].
C13_LowRankForward ==
  (Finished("__call__") /\ cfg.rank > 0) =>
    /\ out.res.tag = "ok"
    /\ LET es == out.res.val.einsums
       IN  /\ Len(es) = 2
           /\ es[1].weight_name = "w_a"
           /\ es[1].x_shape = out.inputs_shape
           /\ es[1].w_shape = <<cfg.input_dims, cfg.rank>>
           /\ es[2].weight_name = "w_b"
           /\ es[2].x_shape = Batch \o <<cfg.rank>>
           /\ es[2].w_shape = <<cfg.rank, cfg.output_dims>>
           /\ \A i \in 1..2 : UsesFullEquation(es[i]) /\ es[i].params.reshape = <<>>
           /\ out.res.val.out_shape = Batch \o <<cfg.output_dims>>
           /\ (cfg.input_dims = 8 /\ cfg.output_dims = 4 /\ out.inputs_shape = <<2, 8>>)
                => out.res.val.out_shape = <<2, 4>>

\* the scenario layer with a block size and a mode that would select the
\* sub-channel equations on a full-rank layer
C13_Witness ==
  /\ Returned("__call__")
  /\ cfg.input_dims = 8 /\ cfg.rank = 2 /\ cfg.output_dims = 4
  /\ BlockSize = 4
  /\ cfg.quantization.mode = "INFERENCE"
  /\ out.inputs_shape = <<2, 8>>
  /\ out.res.val.out_shape = <<2, 4>>

\* the precondition of score_activation_weighted (sparsity.py, line 182)
ScorePrecondition(w_shape, inputs_shape) ==
  Len(w_shape) = 2 /\ inputs_shape[Len(inputs_shape)] = w_shape[1]

\* C14: every weight forward hands to the mask engine comes with an activation
\* satisfying the precondition of activation-weighted scoring: the weight is
\* 2-D and the activation's last axis equals the weight's first axis.
C14_ActivationPrecondition ==
  Returned("__call__") =>
    \A i \in 1..Len(out.res.val.sparsified) :
      ScorePrecondition(out.res.val.sparsified[i].w_shape,
                        out.res.val.sparsified[i].inputs_shape)

\* the weight layout a contraction works on: the stored shape, or the shape it
\* is told to reshape the weight to
HandledShape(e) == IF e.params.reshape # <<>> THEN e.params.reshape ELSE e.w_shape

\* the contraction axis of a weight layout
ContractAxis(shape) == IF Len(shape) = 3 THEN 1 ELSE 0

\* C15: the packing axis setup declares for a weight, forward passes to the
\* contraction primitive and quantize_weight packs along is the contraction
\* axis of the layout in use: 0 for a 2-D weight, 1 (the block_size axis) for
\* [sub_channels, block_size, output_dims]; never the output_dims axis.
C15_PackDimIsContractAxis ==
  /\ (Finished("setup") /\ theta # None) =>
       \A name \in DOMAIN theta :
         theta[name].pack_dim = ContractAxis(theta[name].shape)
  /\ Returned("__call__") =>
       \A i \in 1..Len(out.res.val.einsums) :
         LET e == out.res.val.einsums[i]
         IN  e.params.pack_dim = ContractAxis(HandledShape(e))
  /\ Returned("quantize_weight") =>
       out.res.val.w.pack_dim = (IF BlockSize > 0 THEN 1 ELSE 0)

----------------------------------------------------------------------------
(* sparsity_hparams.py: the validation run when a WeightSparsityParams or a *)
(* SparsityHParams is constructed (__post_init__).  A prune_rate is known   *)
(* by its type only, which is all the validation looks at.                  *)

SparsityTypes == {"STRUCTURED_NM", "UNSTRUCTURED", "CHANNELWISE_PRUNING"}

PruneRateTypes == {"NoneType", "float", "tuple", "int"}

Weights == -1..MaxWeight

sparse_ste_conflict_decay_only(p) == p.mask_decay_weight # 0

\* lines 126-131: what SR-STE may not be combined with
sparse_ste_conflict(p) == p.mask_decay_weight # 0 \/ p.structure_decay

\* WeightSparsityParams.__post_init__: the instance, or the error raised
WeightSparsityParams_post_init(p) ==
  IF ~(p.mask_decay_weight >= 0) THEN Raise("AssertionError")
  ELSE IF ~(p.sparse_ste_weight >= 0) THEN Raise("AssertionError")
  ELSE IF p.sparse_ste /\ sparse_ste_conflict(p) THEN Raise("ValueError")
  ELSE Ok(p)

\* lines 172-174 and the indentation of line 203: the order is looked at inside
\* "if self.weight_params is not None"
order_checked(h) == h.weight_params # None

\* SparsityHParams.__post_init__: the instance, or the error raised
SparsityHParams_post_init(h) ==
  LET wp == h.weight_params
      type_check ==
        IF wp = None THEN None
        ELSE IF h.sparsity_type = "STRUCTURED_NM"
        THEN IF wp.prune_rate # "NoneType" /\ wp.prune_rate # "tuple"
             THEN Raise("AssertionError") ELSE None
        ELSE IF h.sparsity_type \in {"UNSTRUCTURED", "CHANNELWISE_PRUNING"}
        THEN IF wp.prune_rate # "NoneType" /\ wp.prune_rate # "float"
             THEN Raise("AssertionError")
             ELSE IF wp.sparse_ste THEN Raise("ValueError")
             ELSE None
        ELSE Raise("AssertionError")
  IN  IF type_check # None THEN type_check
      ELSE IF order_checked(h) /\ h.order \notin {"C", "R"} THEN Raise("ValueError")
      ELSE Ok(h)

----------------------------------------------------------------------------
(* SpecHParams: a WeightSparsityParams is constructed and, if that worked,  *)
(* handed to the construction of a SparsityHParams; or a SparsityHParams is *)
(* constructed without weight_params.                                       *)

New_SparsityHParams(wp, t, o) ==
  [fn |-> "SparsityHParams", sparsity_type |-> t, weight_params |-> wp, order |-> o]

InitHParams ==
  /\ \/ \E r \in PruneRateTypes, sd \in BOOLEAN, md \in Weights, ste \in BOOLEAN,
           sw \in Weights :
          call = [fn |-> "WeightSparsityParams", prune_rate |-> r,
                  structure_decay |-> sd, mask_decay_weight |-> md,
                  sparse_ste |-> ste, sparse_ste_weight |-> sw]
     \/ \E t \in SparsityTypes, o \in Orders : call = New_SparsityHParams(None, t, o)
  /\ ret = NoRet
  /\ LayerIdle

Construct_WeightSparsityParams ==
  /\ call.fn = "WeightSparsityParams"
  /\ ret = NoRet
  /\ ret' = WeightSparsityParams_post_init(
              [f \in DOMAIN call \ {"fn"} |-> call[f]])
  /\ UNCHANGED <<call, cfg, PACK_4BIT_DIM, theta, out>>

\* the caller passes the instance it obtained as weight_params
Pass_weight_params ==
  /\ call.fn = "WeightSparsityParams"
  /\ ret.tag = "ok"
  /\ \E t \in SparsityTypes, o \in Orders :
       call' = New_SparsityHParams(ret.val, t, o)
  /\ ret' = NoRet
  /\ UNCHANGED <<cfg, PACK_4BIT_DIM, theta, out>>

Construct_SparsityHParams ==
  /\ call.fn = "SparsityHParams"
  /\ ret = NoRet
  /\ ret' = SparsityHParams_post_init([f \in DOMAIN call \ {"fn"} |-> call[f]])
  /\ UNCHANGED <<call, cfg, PACK_4BIT_DIM, theta, out>>

NextHParams ==
  \/ Construct_WeightSparsityParams
  \/ Pass_weight_params
  \/ Construct_SparsityHParams

SpecHParams == InitHParams /\ [][NextHParams]_vars

----------------------------------------------------------------------------
(* Claims on the construction of sparsity configurations.                   *)

Constructing(fn) == call.fn = fn /\ ret # NoRet

\* C11: constructing WeightSparsityParams with sparse_ste and (a nonzero
\* mask_decay_weight or structure_decay) fails, and constructing
\* SparsityHParams with a sparsity type other than STRUCTURED_NM and
\* weight_params whose sparse_ste is True fails; so no constructed
\* configuration combines sparse_ste with any of the three.
C11_SparseSteExclusive ==
  /\ Constructing("WeightSparsityParams") =>
       /\ (call.sparse_ste /\ (call.mask_decay_weight # 0 \/ call.structure_decay))
            => ret.tag = "raise"
       /\ ret.tag = "ok" =>
            (ret.val.sparse_ste =>
               ret.val.mask_decay_weight = 0 /\ ~ret.val.structure_decay)
  /\ (Constructing("SparsityHParams") /\ call.weight_params # None) =>
       /\ (call.weight_params.sparse_ste /\ call.sparsity_type # "STRUCTURED_NM")
            => ret.tag = "raise"
       /\ (ret.tag = "ok" /\ ret.val.weight_params.sparse_ste) =>
            /\ ret.val.sparsity_type = "STRUCTURED_NM"
            /\ ret.val.weight_params.mask_decay_weight = 0
            /\ ~ret.val.weight_params.structure_decay

\* a WeightSparsityParams with sparse_ste that was constructed, then rejected
\* as the weight_params of an unstructured configuration of a supported order
C11_Witness ==
  /\ Constructing("SparsityHParams")
  /\ call.weight_params # None
  /\ call.weight_params.sparse_ste
  /\ call.weight_params.prune_rate = "float"
  /\ call.sparsity_type = "UNSTRUCTURED"
  /\ call.order = "R"
  /\ ret = Raise("ValueError")

\* C12: constructing SparsityHParams with an order other than 'C' or 'R'
\* raises an error for every combination of the other fields, weight_params =
\* None included, so no instance with an unsupported order exists.
C12_OrderRejected ==
  (Constructing("SparsityHParams") /\ call.order \notin {"C", "R"}) =>
    ret.tag = "raise"

====
